---- MODULE Spec2Model ----
(***************************************************************************)
(* lambda-deploy: packaging of a lambda directory into a zip archive and   *)
(* its deployment through the AWS Lambda client, as driven by main().      *)
(*                                                                         *)
(* Strings that the program manipulates (paths, file names, the content of *)
(* the synthesized .env entry) are sequences of one-character strings, so  *)
(* that str.replace, os.path.join, os.path.normpath and str.endswith are   *)
(* computed as Python computes them.                                       *)
(***************************************************************************)
EXTENDS Integers, Sequences, FiniteSets, TLC

(***************************************************************************)
(* Bounds of the model                                                     *)
(***************************************************************************)
\* deepest directory nesting below a walked directory
MaxDepth == 1
\* most files in the lambda directory
MaxFiles == 2
\* most files the installer leaves in the staging directory
MaxStaged == 1
\* most environment variable names requested
MaxEnvVars == 2
\* most positional arguments after the action
MaxArgs == 2

(***************************************************************************)
(* String literals                                                         *)
(***************************************************************************)
SEP == "/"
DOT == <<".">>
DOTDOT == <<".", ".">>
ENV_NAME == <<".", "e", "n", "v">>
PYC_SUFFIX == <<".", "p", "y", "c">>
REQUIREMENTS == <<"r", "e", "q", "u", "i", "r", "e", "m", "e", "n", "t", "s",
                  ".", "t", "x", "t">>
NONE_STR == <<"N", "o", "n", "e">>
UNKNOWN_STR == <<"U", "n", "k", "o", "w", "n">>

\* Python values that may be None
None == [isNone |-> TRUE, s |-> <<>>]
Some(s) == [isNone |-> FALSE, s |-> s]
Truthy(v) == ~v.isNone /\ v.s # <<>>

(***************************************************************************)
(* Input domains                                                           *)
(***************************************************************************)
DirNames == {<<"a">>, <<"b">>}
FileNames == {<<"f">>, ENV_NAME, <<"m">> \o PYC_SUFFIX, REQUIREMENTS}
StagedNames == {<<"f">>, ENV_NAME, <<"m">> \o PYC_SUFFIX}
LambdaDirs == {<<"/", "r">>, <<"a">>}
TempDir == <<"/", "t">>
EnvNames == <<(<<"A">>), (<<"B">>), (<<"C">>)>>
EnvValues == {None, Some(<<"1">>)}
Roles == {None, Some(<<>>), Some(<<"a", "r", "n">>)}
RegistryNames == {<<"r">>, <<"a">>, <<"b">>}
StatusCodes == {200, 201, 500}
Versions == {None, Some(<<"7">>)}
ArgNames == <<(<<"a">>), (<<"b">>), (<<"c">>)>>
Actions == {"deploy", "list", "", "bogus", "package", "get_function_names",
            "role", "add_directory_to_zip"}

Dirs(depth) == UNION {[1..n -> DirNames] : n \in 0..depth}
Files(names, depth) == {[dir |-> d, name |-> n] : d \in Dirs(depth), n \in names}
\* the subsets of U of at most k elements
RECURSIVE UpTo(_, _)
UpTo(U, k) ==
    IF k = 0 THEN {{}}
    ELSE LET P == UpTo(U, k - 1) IN P \cup {S \cup {f} : S \in P, f \in U}

FileSets(names, depth, most) == UpTo(Files(names, depth), most)

(***************************************************************************)
(* Python string and path functions                                        *)
(***************************************************************************)
StartsWith(s, p) == Len(s) >= Len(p) /\ SubSeq(s, 1, Len(p)) = p
EndsWith(s, p) == Len(s) >= Len(p) /\ SubSeq(s, Len(s) - Len(p) + 1, Len(s)) = p

\* s.replace(old, ''), old non-empty: leftmost non-overlapping occurrences
RECURSIVE Replace(_, _)
Replace(s, old) ==
    IF Len(s) < Len(old) THEN s
    ELSE IF StartsWith(s, old)
         THEN Replace(SubSeq(s, Len(old) + 1, Len(s)), old)
         ELSE <<s[1]>> \o Replace(Tail(s), old)

\* os.path.join(a, b) for a relative b
PathJoin(a, b) ==
    IF a = <<>> \/ a[Len(a)] = SEP THEN a \o b ELSE a \o <<SEP>> \o b

\* s.split('/')
RECURSIVE Split(_)
Split(s) ==
    IF \A i \in 1..Len(s) : s[i] # SEP THEN <<s>>
    ELSE LET i == CHOOSE k \in 1..Len(s) :
                      s[k] = SEP /\ \A j \in 1..(k - 1) : s[j] # SEP
         IN <<SubSeq(s, 1, i - 1)>> \o Split(SubSeq(s, i + 1, Len(s)))

\* '/'.join(comps)
RECURSIVE JoinWith(_, _)
JoinWith(comps, sep) ==
    IF comps = <<>> THEN <<>>
    ELSE IF Len(comps) = 1 THEN comps[1]
    ELSE comps[1] \o sep \o JoinWith(Tail(comps), sep)

\* the component loop of posixpath.normpath
RECURSIVE NormComps(_, _, _)
NormComps(comps, new, initial) ==
    IF comps = <<>> THEN new
    ELSE LET c == comps[1]
             rest == Tail(comps)
         IN IF c = <<>> \/ c = DOT THEN NormComps(rest, new, initial)
            ELSE IF c # DOTDOT
                    \/ (initial = 0 /\ new = <<>>)
                    \/ (new # <<>> /\ new[Len(new)] = DOTDOT)
                 THEN NormComps(rest, Append(new, c), initial)
                 ELSE IF new # <<>>
                      THEN NormComps(rest, SubSeq(new, 1, Len(new) - 1), initial)
                      ELSE NormComps(rest, new, initial)

\* posixpath.normpath(path)
NormPath(path) ==
    IF path = <<>> THEN DOT
    ELSE LET initial == IF ~StartsWith(path, <<SEP>>) THEN 0
                        ELSE IF StartsWith(path, <<SEP, SEP>>)
                                /\ ~StartsWith(path, <<SEP, SEP, SEP>>)
                             THEN 2 ELSE 1
             joined == JoinWith(NormComps(Split(path), <<>>, initial), <<SEP>>)
             out == [i \in 1..initial |-> SEP] \o joined
         IN IF out = <<>> THEN DOT ELSE out

\* os.path.basename(path)
Basename(path) == LET comps == Split(path) IN comps[Len(comps)]

\* the name ZipFile.write stores for arcname: normpath, then leading
\* separators stripped
RECURSIVE StripSeps(_)
StripSeps(s) == IF s # <<>> /\ s[1] = SEP THEN StripSeps(Tail(s)) ELSE s

ZipArcname(arcname) == StripSeps(NormPath(arcname))

\* the root os.walk(top) reports for the directory d below top
RECURSIVE WalkRoot(_, _)
WalkRoot(top, d) ==
    IF d = <<>> THEN top
    ELSE PathJoin(WalkRoot(top, SubSeq(d, 1, Len(d) - 1)), d[Len(d)])

IsPrefix(d, e) == Len(d) <= Len(e) /\ SubSeq(e, 1, Len(d)) = d

\* the orders in which os.walk (top-down) can visit the files of S
WalkOrders(S) ==
    {o \in [1..Cardinality(S) -> S] :
        /\ \A i, j \in 1..Cardinality(S) : i # j => o[i] # o[j]
        /\ \A i, j \in 1..Cardinality(S) :
              (i < j) => ~(o[j].dir # o[i].dir /\ IsPrefix(o[j].dir, o[i].dir))
        /\ \A i, j, k \in 1..Cardinality(S) :
              (i < j /\ j < k) =>
                  \A n \in 1..Len(o[i].dir) :
                      IsPrefix(SubSeq(o[i].dir, 1, n), o[k].dir)
                          => IsPrefix(SubSeq(o[i].dir, 1, n), o[j].dir)}

(***************************************************************************)
(* LambdaDeploy.add_directory_to_zip                                       *)
(***************************************************************************)
\* a walk that does not recognise the .env file
IsEnvFile_Never(filename) == FALSE

\* filename == '.env'
IsEnvFile(filename) == filename = ENV_NAME

\* filename.endswith('.pyc')
IsBytecode(filename) == EndsWith(filename, PYC_SUFFIX)

\* an arcname that keeps the walked directory in front
Arcname_KeepPrefix(directory, root, filename) == PathJoin(root, filename)

\* the arcname handed to zf.write for a file of root
Arcname(directory, root, filename) ==
    PathJoin(Replace(root, directory), filename)

FileEntry(directory, f) ==
    LET root == WalkRoot(directory, f.dir)
    IN [name |-> ZipArcname(Arcname(directory, root, f.name)),
        kind |-> "file",
        data |-> PathJoin(root, f.name)]

SkipWarning == [level |-> "warn", msg |-> "Skipping inclusion of .env file",
                arg |-> <<>>]

\* the walk of directory visiting its files in the given order: the entries
\* written to the archive and the warnings logged.  failAt = 0: no zf.write
\* raises; failAt = k > 0: the k-th zf.write raises and ends the walk.
RECURSIVE AddDirectoryToZip(_, _, _)
AddDirectoryToZip(directory, order, failAt) ==
    IF order = <<>> THEN [entries |-> <<>>, warnings |-> <<>>]
    ELSE LET f == order[1]
         IN IF IsEnvFile(f.name)
            THEN LET r == AddDirectoryToZip(directory, Tail(order), failAt)
                 IN [entries |-> r.entries,
                     warnings |-> <<SkipWarning>> \o r.warnings]
            ELSE IF ~IsBytecode(f.name)
                 THEN IF failAt = 1
                      THEN [entries |-> <<>>, warnings |-> <<>>]
                      ELSE LET r == AddDirectoryToZip(
                                        directory, Tail(order),
                                        IF failAt = 0 THEN 0 ELSE failAt - 1)
                           IN [entries |-> <<FileEntry(directory, f)>> \o r.entries,
                               warnings |-> r.warnings]
                 ELSE AddDirectoryToZip(directory, Tail(order), failAt)

\* the number of zf.write calls of a walk that no write ends
Writes(directory, order) == Len(AddDirectoryToZip(directory, order, 0).entries)

(***************************************************************************)
(* LambdaDeploy.package: the synthesized .env entry                        *)
(***************************************************************************)
\* '{}'.format(value)
Format(v) == IF v.isNone THEN NONE_STR ELSE v.s

\* '{} = {}'.format(key, yaep.env(key))
EnvLine(key, v) == key \o <<" ", "=", " ">> \o Format(v)

RECURSIVE EnvLines(_, _)
EnvLines(keys, env) ==
    IF keys = <<>> THEN <<>>
    ELSE <<EnvLine(keys[1], env[keys[1]])>> \o EnvLines(Tail(keys), env)

EnvEntry(keys, env) ==
    [name |-> ENV_NAME, kind |-> "env",
     data |-> JoinWith(EnvLines(keys, env), <<"\n">>)]

\* os.listdir(lambda_dir)
Listdir(files) ==
    {f.name : f \in {g \in files : g.dir = <<>>}}
        \cup {f.dir[1] : f \in {g \in files : g.dir # <<>>}}

\* 'requirements.txt' in os.listdir(self.lambda_dir)
HasRequirements(files) == REQUIREMENTS \in Listdir(files)

\* a status test that takes every status for success
PipSucceeded_Always(status) == TRUE

\* pip.main(pip_args) == 0
PipSucceeded(status) == status = 0

\* a context manager that removes the directory only on a normal exit
TemporaryDirectoryExit_NoFinally(exists, wasRaised) ==
    IF wasRaised THEN exists ELSE FALSE

\* the finally clause of TemporaryDirectory: whether the directory still
\* exists once the with block is left, normally or by an exception
TemporaryDirectoryExit(exists, wasRaised) == FALSE

(***************************************************************************)
(* LambdaDeploy.deploy                                                     *)
(***************************************************************************)
\* a deploy() without the role check
RoleMissing_Never(r) == FALSE

\* not self.role
RoleMissing(r) == ~Truthy(r)

\* a deploy() that always takes the update branch
FunctionExists_Always(name, listed) == TRUE

\* self.lambda_name in self.get_function_names()
FunctionExists(name, listed) == name \in listed

\* status_code in [200, 201]
StatusOk(code) == code \in {200, 201}

(***************************************************************************)
(* main: dynamic dispatch on the action string                             *)
(***************************************************************************)
Methods == {"deploy", "list", "package", "get_function_names",
            "add_directory_to_zip"}

\* getattr(LambdaDeploy(...), action, None)
Getattr(name, r) ==
    IF name \in Methods THEN [truthy |-> TRUE, callable |-> TRUE, m |-> name]
    ELSE IF name = "role"
         THEN [truthy |-> Truthy(r), callable |-> FALSE, m |-> "role"]
         ELSE [truthy |-> FALSE, callable |-> FALSE, m |-> "None"]

\* whether calling the method with n positional arguments binds
ArityOk(m, n) ==
    CASE m = "deploy" -> TRUE
      [] m = "add_directory_to_zip" -> n = 2
      [] OTHER -> n = 0

(***************************************************************************)
(* State                                                                   *)
(***************************************************************************)
VARIABLES
    pc,          \* position in main / deploy / package
    action,      \* args[0]
    args,        \* args[1:]
    caller,      \* who called package(): "deploy" or "main"
    role,        \* self.role
    lambda_dir,  \* self.lambda_dir
    lambda_name, \* self.lambda_name
    env_vars,    \* self.env_vars
    srcFiles,    \* the files below lambda_dir
    staged,      \* the files the installer put below the staging directory
    archive,     \* the entries of zf, in the order written
    zfh,         \* the buffer package() returned: <<>> or <<entries>>
    tempExists,  \* whether the staging directory exists on disk
    calls,       \* mkdtemp, installer, rmtree and client calls, in order
    names,       \* the result of get_function_names(), once queried
    response,    \* the response of update_function_code / create_function
    environ,     \* the values yaep.env resolved for the names of env_vars
    log,         \* the records logged
    raised,      \* the exception the invoked code raised, if any
    outcome      \* how the invocation ended

vars == <<pc, action, args, caller, role, lambda_dir, lambda_name, env_vars,
          srcFiles, staged, archive, zfh, tempExists, calls, names, response,
          environ, log, raised, outcome>>

Call(op, name, publish, r, status) ==
    [op |-> op, name |-> name, publish |-> publish, role |-> r,
     status |-> status]

Log(level, msg, arg) == [level |-> level, msg |-> msg, arg |-> arg]

NoResponse == [status |-> 0, version |-> None]

ArgLists == {SubSeq(ArgNames, 1, n) : n \in 0..MaxArgs}

Init ==
    /\ pc = "main"
    /\ action \in Actions
    /\ args \in ArgLists
    /\ caller = "none"
    /\ role = None
    /\ lambda_dir = <<>>
    /\ lambda_name = <<>>
    /\ env_vars = <<>>
    /\ srcFiles = {}
    /\ staged = {}
    /\ archive = <<>>
    /\ zfh = <<>>
    /\ tempExists = FALSE
    /\ calls = <<>>
    /\ names = {}
    /\ response = NoResponse
    /\ environ = <<>>
    /\ log = <<>>
    /\ raised = "none"
    /\ outcome = "running"

\* print_usage(parser): sys.exit(1), reached directly or from an except
\* clause of main that caught exc
Usage(exc, records) ==
    /\ pc' = "done"
    /\ outcome' = "usage"
    /\ raised' = exc
    /\ log' = log \o records

\* an exception main does not catch ends the process
Uncaught(exc, records) ==
    /\ pc' = "done"
    /\ outcome' = exc
    /\ raised' = exc
    /\ log' = log \o records

InvalidArguments == Log("error", "Invalid arguments.", <<>>)

\* main: LambdaDeploy(...) and the getattr of the action
Construct ==
    /\ pc = "main"
    /\ \E dir \in LambdaDirs, optRole \in Roles, envRole \in Roles,
          n \in 0..MaxEnvVars, envFileMissing \in BOOLEAN :
          IF envFileMissing
          THEN /\ Usage("ArgumentsError",
                        <<Log("error", "Can't find Lambda env file", <<>>),
                          InvalidArguments>>)
               /\ UNCHANGED <<role, lambda_dir, lambda_name, env_vars>>
          ELSE /\ env_vars' = SubSeq(EnvNames, 1, n)
               /\ lambda_dir' = dir
               /\ lambda_name' = Basename(NormPath(dir))
               /\ role' = IF Truthy(optRole) THEN optRole ELSE envRole
               /\ pc' = "dispatch"
               /\ UNCHANGED <<log, raised, outcome>>
    /\ UNCHANGED <<action, args, caller, srcFiles, staged, archive, zfh,
                   tempExists, calls, names, response, environ>>

\* main: if not method ... else method(*args[1:])
Dispatch ==
    /\ pc = "dispatch"
    /\ LET method == Getattr(action, role)
       IN IF ~method.truthy
          THEN /\ Usage("none",
                        IF action # ""
                        THEN <<Log("error", "Action unknown - quitting.", <<>>)>>
                        ELSE <<>>)
               /\ UNCHANGED caller
          ELSE IF ~method.callable \/ ~ArityOk(method.m, Len(args))
               THEN /\ Usage("TypeError", <<InvalidArguments>>)
                    /\ UNCHANGED caller
               ELSE /\ pc' = method.m
                    /\ caller' = "main"
                    /\ UNCHANGED <<log, raised, outcome>>
    /\ UNCHANGED <<action, args, role, lambda_dir, lambda_name,
                   env_vars, srcFiles, staged, archive, zfh, tempExists,
                   calls, names, response, environ>>

\* deploy: the role check, then the call of package()
DeployStart ==
    /\ pc = "deploy"
    /\ IF RoleMissing(role)
       THEN /\ Usage("ArgumentsError",
                     <<Log("error", "Missing AWS Role", <<>>),
                       InvalidArguments>>)
            /\ UNCHANGED caller
       ELSE /\ pc' = "package"
            /\ caller' = "deploy"
            /\ log' = Append(log, Log("debug", "Deploying lambda", lambda_name))
            /\ UNCHANGED <<raised, outcome>>
    /\ UNCHANGED <<action, args, role, lambda_dir, lambda_name, env_vars,
                   srcFiles, staged, archive, zfh, tempExists, calls, names,
                   response, environ>>

\* package(): the walk of the lambda directory and the .env entry
PackageSource ==
    /\ pc = "package"
    /\ \E files \in FileSets(FileNames, MaxDepth, MaxFiles) :
       \E order \in WalkOrders(files) :
       \E env \in [{env_vars[i] : i \in 1..Len(env_vars)} -> EnvValues] :
       \E failAt \in 0..Writes(lambda_dir, order) :
          LET walk == AddDirectoryToZip(lambda_dir, order, failAt)
              records ==
                  <<Log("info", "Packaging lambda", lambda_name)>>
                  \o (IF \E f \in files : f.dir = <<>> /\ f.name = ENV_NAME
                      THEN <<Log("warn", "A .env file exists", <<>>)>>
                      ELSE <<>>)
                  \o walk.warnings
          IN /\ srcFiles' = files
             /\ IF failAt = 0
                THEN /\ archive' = walk.entries \o <<EnvEntry(env_vars, env)>>
                     /\ environ' = env
                     /\ log' = log \o records
                     /\ pc' = "requirements"
                     /\ UNCHANGED <<raised, outcome>>
                ELSE /\ archive' = walk.entries
                     /\ UNCHANGED environ
                     /\ Uncaught("IOError", records)
    /\ UNCHANGED <<action, args, caller, role, lambda_dir, lambda_name,
                   env_vars, staged, zfh, tempExists, calls, names, response>>

\* package(): the requirements.txt test and the entry of the with block
PackageRequirements ==
    /\ pc = "requirements"
    /\ IF HasRequirements(srcFiles)
       THEN /\ tempExists' = TRUE
            /\ calls' = Append(calls, Call("mkdtemp", TempDir, FALSE, None, 0))
            /\ pc' = "pip"
       ELSE /\ pc' = "packaged"
            /\ UNCHANGED <<tempExists, calls>>
    /\ UNCHANGED <<action, args, caller, role, lambda_dir, lambda_name,
                   env_vars, srcFiles, staged, archive, zfh, names, response,
                   environ, log, raised, outcome>>

\* the exit of the with block after the calls made so far
Cleanup(made, wasRaised) ==
    LET left == TemporaryDirectoryExit(tempExists, wasRaised)
    IN /\ tempExists' = left
       /\ calls' = IF left # tempExists
                   THEN Append(made, Call("rmtree", TempDir, FALSE, None, 0))
                   ELSE made

\* package(): pip.main(pip_args) and, when it fails, the raise
PipInstall ==
    /\ pc = "pip"
    /\ \E status \in {0, 1}, files \in FileSets(StagedNames, MaxDepth, MaxStaged) :
          LET made == Append(calls, Call("pip", TempDir, FALSE, None, status))
          IN IF PipSucceeded(status)
             THEN /\ staged' = files
                  /\ calls' = made
                  /\ pc' = "addstaged"
                  /\ UNCHANGED <<tempExists, log, raised, outcome>>
             ELSE /\ staged' = files
                  /\ Cleanup(made, TRUE)
                  /\ Uncaught("DependencyInstallationError", <<>>)
    /\ UNCHANGED <<action, args, caller, role, lambda_dir, lambda_name,
                   env_vars, srcFiles, archive, zfh, names, response, environ>>

\* package(): the walk of the staging directory and the exit of the with block
AddStaged ==
    /\ pc = "addstaged"
    /\ \E order \in WalkOrders(staged) :
       \E failAt \in 0..Writes(TempDir, order) :
          LET walk == AddDirectoryToZip(TempDir, order, failAt)
          IN /\ archive' = archive \o walk.entries
             /\ IF failAt = 0
                THEN /\ log' = log \o walk.warnings
                     /\ Cleanup(calls, FALSE)
                     /\ pc' = "packaged"
                     /\ UNCHANGED <<raised, outcome>>
                ELSE /\ Cleanup(calls, TRUE)
                     /\ Uncaught("IOError", walk.warnings)
    /\ UNCHANGED <<action, args, caller, role, lambda_dir, lambda_name,
                   env_vars, srcFiles, staged, zfh, names, response, environ>>

\* package(): zfh.seek(0); return zfh
PackageReturn ==
    /\ pc = "packaged"
    /\ zfh' = <<archive>>
    /\ IF caller = "deploy"
       THEN /\ pc' = "query"
            /\ UNCHANGED outcome
       ELSE /\ pc' = "done"
            /\ outcome' = "returned"
    /\ UNCHANGED <<action, args, caller, role, lambda_dir, lambda_name,
                   env_vars, srcFiles, staged, archive, tempExists, calls,
                   names, response, environ, log, raised>>

\* deploy(): self.get_function_names()
DeployQuery ==
    /\ pc = "query"
    /\ \E listed \in SUBSET RegistryNames :
          /\ names' = listed
          /\ calls' = Append(calls, Call("list_functions", <<>>, FALSE, None, 200))
    /\ pc' = "upload"
    /\ UNCHANGED <<action, args, caller, role, lambda_dir, lambda_name,
                   env_vars, srcFiles, staged, archive, zfh, tempExists,
                   response, environ, log, raised, outcome>>

\* deploy(): update_function_code or create_function, and the status check
DeployUpload ==
    /\ pc = "upload"
    /\ \E status \in StatusCodes, version \in Versions :
          LET exists == FunctionExists(lambda_name, names)
              call == IF exists
                      THEN Call("update_function_code", lambda_name, TRUE,
                                None, status)
                      ELSE Call("create_function", lambda_name, TRUE,
                                role, status)
              before == IF exists
                        THEN Log("info", "Updating lambda", lambda_name)
                        ELSE Log("info", "Adding new lambda", lambda_name)
              after == IF StatusOk(status)
                       THEN Log("info", "Successfully deployed version",
                                IF version.isNone THEN UNKNOWN_STR ELSE version.s)
                       ELSE Log("error", "Error deploying", lambda_name)
          IN /\ calls' = Append(calls, call)
             /\ response' = [status |-> status, version |-> version]
             /\ log' = log \o <<before, after>>
    /\ pc' = "done"
    /\ outcome' = "returned"
    /\ UNCHANGED <<action, args, caller, role, lambda_dir, lambda_name,
                   env_vars, srcFiles, staged, archive, zfh, tempExists, names,
                   environ, raised>>

\* list(): one query, each function's JSON logged
List ==
    /\ pc = "list"
    /\ \E listed \in SUBSET RegistryNames :
          /\ calls' = Append(calls, Call("list_functions", <<>>, FALSE, None, 200))
          /\ log' = log \o (IF listed = {} THEN <<>>
                            ELSE <<Log("info", "function records", <<>>)>>)
    /\ pc' = "done"
    /\ outcome' = "returned"
    /\ UNCHANGED <<action, args, caller, role, lambda_dir, lambda_name,
                   env_vars, srcFiles, staged, archive, zfh, tempExists,
                   names, response, environ, raised>>

\* get_function_names() reached through the dispatch of main
GetFunctionNames ==
    /\ pc = "get_function_names"
    /\ \E listed \in SUBSET RegistryNames :
          /\ names' = listed
          /\ calls' = Append(calls, Call("list_functions", <<>>, FALSE, None, 200))
    /\ pc' = "done"
    /\ outcome' = "returned"
    /\ UNCHANGED <<action, args, caller, role, lambda_dir, lambda_name,
                   env_vars, srcFiles, staged, archive, zfh, tempExists,
                   response, environ, log, raised>>

\* add_directory_to_zip(args[1], args[2]) reached through the dispatch of
\* main: zf is a str, so the first zf.write raises AttributeError
MainAddDirectory ==
    /\ pc = "add_directory_to_zip"
    /\ \E files \in FileSets(StagedNames, MaxDepth, MaxStaged) :
       \E order \in WalkOrders(files) :
          IF Writes(args[1], order) = 0
          THEN /\ pc' = "done"
               /\ outcome' = "returned"
               /\ log' = log \o AddDirectoryToZip(args[1], order, 0).warnings
               /\ UNCHANGED raised
          ELSE Uncaught("AttributeError",
                        AddDirectoryToZip(args[1], order, 1).warnings)
    /\ UNCHANGED <<action, args, caller, role, lambda_dir, lambda_name,
                   env_vars, srcFiles, staged, archive, zfh, tempExists,
                   calls, names, response, environ>>

Next ==
    \/ Construct
    \/ Dispatch
    \/ DeployStart
    \/ PackageSource
    \/ PackageRequirements
    \/ PipInstall
    \/ AddStaged
    \/ PackageReturn
    \/ DeployQuery
    \/ DeployUpload
    \/ List
    \/ GetFunctionNames
    \/ MainAddDirectory

Spec == Init /\ [][Next]_vars

TypeOK ==
    /\ pc \in {"main", "dispatch", "deploy", "package", "requirements", "pip",
               "addstaged", "packaged", "query", "upload", "list",
               "get_function_names", "add_directory_to_zip", "done"}
    /\ outcome \in {"running", "returned", "usage", "IOError",
                    "DependencyInstallationError", "AttributeError"}
    /\ raised \in {"none", "ArgumentsError", "TypeError", "IOError",
                   "DependencyInstallationError", "AttributeError"}
    /\ tempExists \in BOOLEAN
    /\ Len(zfh) <= 1

(***************************************************************************)
(* Vocabulary of the properties                                            *)
(***************************************************************************)
Ops(which) == {i \in 1..Len(calls) : calls[i].op \in which}
RemoteOps == {"list_functions", "update_function_code", "create_function"}
UploadOps == {"update_function_code", "create_function"}

\* deploy() / package() was called by main
DeployCalled == action = "deploy" /\ caller # "none"
PackageCalled == caller = "deploy" \/ (action = "package" /\ caller = "main")
PackageStarted ==
    \E i \in 1..Len(log) : log[i].msg = "Packaging lambda"

\* the path of a file relative to the directory walked
RelPath(f) == JoinWith(f.dir \o <<f.name>>, <<SEP>>)
\* an archive entry for the file f of the directory top, at its relative path
HasEntry(entries, top, f) ==
    \E i \in 1..Len(entries) :
        /\ entries[i].kind = "file"
        /\ entries[i].name = RelPath(f)
        /\ entries[i].data = top \o <<SEP>> \o RelPath(f)

RECURSIVE Lines(_)
Lines(text) ==
    IF text = <<>> THEN <<>>
    ELSE IF \A i \in 1..Len(text) : text[i] # "\n" THEN <<text>>
    ELSE LET i == CHOOSE k \in 1..Len(text) :
                      text[k] = "\n" /\ \A j \in 1..(k - 1) : text[j] # "\n"
         IN <<SubSeq(text, 1, i - 1)>> \o Lines(SubSeq(text, i + 1, Len(text)))

\* the working set of deploy(names...) as the specification describes it
WorkingSet ==
    IF args = <<>> THEN Listdir(srcFiles)
    ELSE {args[i] : i \in 1..Len(args)} \cap Listdir(srcFiles)

(***************************************************************************)
(* C1                                                                      *)
(***************************************************************************)
\* C1: the staging directory exists only while package() is between the
\* creation of the directory and the exit of the with block, so it does not
\* exist once package() has returned or raised (installer success, installer
\* failure, error while adding the staged files); it is created only when
\* requirements.txt is directly under the lambda directory, and the call
\* that follows its creation is the installer.
C1_StagingRemoved ==
    /\ tempExists => pc \in {"pip", "addstaged"}
    /\ (zfh # <<>> \/ raised # "none") => ~tempExists
    /\ \A i \in Ops({"mkdtemp"}) :
          /\ REQUIREMENTS \in Listdir(srcFiles)
          /\ IF i = Len(calls) THEN pc = "pip" ELSE calls[i + 1].op = "pip"
    /\ \A i \in Ops({"rmtree"}) : Ops({"mkdtemp"}) # {}

C1_Witness ==
    /\ caller = "deploy"
    /\ raised = "IOError"
    /\ Ops({"mkdtemp"}) # {}
    /\ Ops({"rmtree"}) # {}
    /\ staged # {}
    /\ ~tempExists

(***************************************************************************)
(* C2                                                                      *)
(***************************************************************************)
\* C2: when deploy() is called with no role configured it raises
\* ArgumentsError, and no list-functions, update or create call has been
\* issued, packaging has not started and the installer has not run.
C2_NoRoleNoCalls ==
    (DeployCalled /\ ~Truthy(role)) =>
        /\ calls = <<>>
        /\ ~PackageStarted
        /\ archive = <<>> /\ zfh = <<>>
        /\ pc \in {"deploy", "done"}
        /\ pc = "done" => raised = "ArgumentsError"

C2_Witness ==
    /\ DeployCalled
    /\ ~Truthy(role)
    /\ pc = "done"
    /\ raised = "ArgumentsError"

(***************************************************************************)
(* C3                                                                      *)
(***************************************************************************)
\* C3: when the installer reports a non-zero status, package() raises
\* DependencyInstallationError and returns no archive, and no
\* list-functions, update or create call is ever issued in that run.
C3_InstallerFailureFatal ==
    (\E i \in Ops({"pip"}) : calls[i].status # 0) =>
        /\ raised = "DependencyInstallationError"
        /\ outcome = "DependencyInstallationError"
        /\ zfh = <<>>
        /\ Ops(RemoteOps) = {}

C3_Witness ==
    /\ DeployCalled
    /\ REQUIREMENTS \in Listdir(srcFiles)
    /\ \E i \in Ops({"pip"}) : calls[i].status # 0
    /\ raised = "DependencyInstallationError"

(***************************************************************************)
(* C4                                                                      *)
(***************************************************************************)
\* C4 as stated: after a successful installer run every file of the staging
\* directory, whatever its name, is in the returned archive at its path
\* relative to the staging directory.
C4_EveryStagedFile ==
    (zfh # <<>> /\ Ops({"pip"}) # {}) =>
        \A f \in staged : HasEntry(zfh[1], TempDir, f)

\* C4 as amended: after a successful installer run every file of the staging
\* directory whose name is not .env and does not end in .pyc is in the
\* returned archive at its path relative to the staging directory.
C4_StagedFilesArchived ==
    (zfh # <<>> /\ Ops({"pip"}) # {}) =>
        \A f \in staged :
            (f.name # ENV_NAME /\ ~EndsWith(f.name, PYC_SUFFIX))
                => HasEntry(zfh[1], TempDir, f)

C4_Witness ==
    /\ zfh # <<>>
    /\ \E f \in staged :
          /\ f.dir # <<>>
          /\ f.name = <<"f">>
          /\ HasEntry(zfh[1], TempDir, f)

(***************************************************************************)
(* C5                                                                      *)
(***************************************************************************)
\* C5: the archive package() returns contains every file of the lambda
\* directory whose name does not end in .pyc, at its path relative to the
\* lambda directory, and no entry whose name ends in .pyc.
C5_SourceFilesArchived ==
    zfh # <<>> =>
        /\ \A f \in srcFiles :
              ~EndsWith(f.name, PYC_SUFFIX) => HasEntry(zfh[1], lambda_dir, f)
        /\ \A i \in 1..Len(zfh[1]) : ~EndsWith(zfh[1][i].name, PYC_SUFFIX)

C7_EveryTargetDeployed ==
    (DeployCalled /\ outcome = "returned") =>
        \A t \in WorkingSet :
            \E i \in Ops(UploadOps) :
                /\ calls[i].name = t
                /\ calls[i].op = IF t \in names THEN "update_function_code"
                                 ELSE "create_function"

(***************************************************************************)
(* C8                                                                      *)
(***************************************************************************)
\* C8: a response that is neither 200 nor 201 is logged as an error and not
\* raised, deploy() returns, and every target of the run has been packaged
\* and uploaded; a 200 or 201 response is logged as success with the
\* version.
C8_FailureDoesNotStopRun ==
    (DeployCalled /\ Ops(UploadOps) # {}) =>
        /\ raised = "none" /\ outcome = "returned"
        /\ IF response.status \in {200, 201}
           THEN log[Len(log)].msg = "Successfully deployed version"
                /\ log[Len(log)].arg = (IF response.version = None
                                        THEN UNKNOWN_STR
                                        ELSE response.version.s)
           ELSE log[Len(log)].level = "error"
                /\ log[Len(log)].msg = "Error deploying"
        /\ \A t \in WorkingSet :
              \E i \in Ops(UploadOps) : calls[i].name = t

(***************************************************************************)
(* C9                                                                      *)
(***************************************************************************)
\* C9: for an action other than deploy and list, main() invokes no method
\* (so nothing is packaged and no remote call is made) and ends on the
\* usage-help exit.
C9_ClosedCommandSet ==
    action \notin {"deploy", "list"} =>
        /\ caller = "none"
        /\ ~PackageStarted
        /\ calls = <<>>
        /\ pc = "done" => outcome = "usage"

(***************************************************************************)
(* C10                                                                     *)
(***************************************************************************)
\* C10: in a run of deploy() the installer is invoked at most once, the
\* registry is queried only after package() has returned, at most one upload
\* call is issued, and once deploy() has returned exactly one query and
\* exactly one upload call have been issued, the upload last and published;
\* a create call carries the configured role, and an update call is only
\* issued for a name in the listing.
C10_NoRetries ==
    DeployCalled =>
        /\ Cardinality(Ops({"pip"})) <= 1
        /\ Cardinality(Ops({"list_functions"})) <= 1
        /\ Cardinality(Ops(UploadOps)) <= 1
        /\ \A i \in Ops(RemoteOps) :
              /\ zfh # <<>>
              /\ \A j \in Ops({"pip", "mkdtemp", "rmtree"}) : j < i
        /\ \A i \in Ops(UploadOps) :
              /\ i = Len(calls)
              /\ calls[i - 1].op = "list_functions"
              /\ calls[i].publish
              /\ calls[i].name = lambda_name
              /\ calls[i].op = "create_function" =>
                     (calls[i].role = role /\ Truthy(role)
                      /\ lambda_name \notin names)
              /\ calls[i].op = "update_function_code" => lambda_name \in names
        /\ outcome = "returned" =>
              /\ Cardinality(Ops({"list_functions"})) = 1
              /\ Cardinality(Ops(UploadOps)) = 1

C10_Witness ==
    /\ DeployCalled
    /\ outcome = "returned"
    /\ response.status = 500
    /\ Ops({"pip"}) # {}
    /\ Ops({"update_function_code"}) # {}

====
